---------------------------- MODULE Spec2Model ----------------------------
(***************************************************************************)
(* A model of web/app.js: the policy dashboard.  initDashboard loads two   *)
(* JSON documents, renders the KPI slots, the map, the charts and the      *)
(* table; map and chart clicks filter the table; table rows open a modal.  *)
(*                                                                         *)
(* Strings are sequences of one-character strings, so that includes,       *)
(* replace, split, substring and length are computed and not assumed.  A   *)
(* character outside ASCII is written by its code point ("U+53F0").        *)
(* A JavaScript value whose type matters (number, string, undefined) is a  *)
(* record [t, n, s].  The HTML written through innerHTML is kept as the    *)
(* row descriptors the template produces, one per <tr>.                    *)
(***************************************************************************)
EXTENDS Integers, Sequences, FiniteSets

(***************************************************************************)
(* Bounds of the model.                                                    *)
(***************************************************************************)
\* longest policy collection enumerated exhaustively
MaxPolicies == 2
\* records beyond the table's display cap in the long collection
Overflow == 2
\* longest boundary-geometry features array enumerated exhaustively
MaxFeatures == 3
\* most times a step taken on its own is applied to its own input
MaxPasses == 2

\* entries beyond the chart's cut in the longest ranked mapping
RankOverflow == 1
\* longest title rendered on its own
MaxTitleLen == 40

(***************************************************************************)
(* JavaScript values and strings.                                          *)
(***************************************************************************)
JNum(n) == [t |-> "number", n |-> n, s |-> << >>]
JStr(s) == [t |-> "string", n |-> 0, s |-> s]
JUndef == [t |-> "undefined", n |-> 0, s |-> << >>]
Null == [t |-> "null", n |-> 0, s |-> << >>]

DigitChars == <<"0", "1", "2", "3", "4", "5", "6", "7", "8", "9">>

IsDigit(c) == \E d \in 1..10 : DigitChars[d] = c

DigitValue(c) == (CHOOSE d \in 1..10 : DigitChars[d] = c) - 1

RECURSIVE DecValue(_)
\* the value of a string of decimal digits
DecValue(s) ==
    IF s = << >> THEN 0
    ELSE 10 * DecValue(SubSeq(s, 1, Len(s) - 1)) + DigitValue(s[Len(s)])

RECURSIVE DecStr(_)
\* Number::toString of a non-negative integer
DecStr(n) ==
    IF n < 10 THEN <<DigitChars[n + 1]>>
    ELSE DecStr(n \div 10) \o <<DigitChars[(n % 10) + 1]>>

\* ToString, as a template literal `${v}` applies it
ToString(v) ==
    CASE v.t = "string" -> v.s
      [] v.t = "number" -> DecStr(v.n)
      [] v.t = "null" -> <<"n", "u", "l", "l">>
      [] OTHER -> <<"u", "n", "d", "e", "f", "i", "n", "e", "d">>

\* ToBoolean: the falsy values are undefined, null, 0 and ""
Truthy(v) ==
    CASE v.t = "string" -> v.s # << >>
      [] v.t = "number" -> v.n # 0
      [] OTHER -> FALSE

\* v == k for a number k (abstract equality): a number compares by value, a
\* string by its numeric value (a string that is no decimal numeral is NaN),
\* undefined and null are not equal to any number.  An empty string is 0.
LooseEqNumber(v, k) ==
    CASE v.t = "number" -> v.n = k
      [] v.t = "string" ->
            /\ \A i \in 1..Len(v.s) : IsDigit(v.s[i])
            /\ DecValue(v.s) = k
      [] OTHER -> FALSE

\* String.prototype.includes
StrIncludes(s, sub) ==
    \E i \in 0..(Len(s) - Len(sub)) : SubSeq(s, i + 1, i + Len(sub)) = sub

\* s.replace(/c/g, r) for one-character c and r
ReplaceAllChar(s, c, r) == [i \in 1..Len(s) |-> IF s[i] = c THEN r ELSE s[i]]

\* s.replace(pat, '') for a string pattern: the first occurrence only
RemoveFirst(s, pat) ==
    IF StrIncludes(s, pat)
    THEN LET i == CHOOSE k \in 0..(Len(s) - Len(pat)) :
                    /\ SubSeq(s, k + 1, k + Len(pat)) = pat
                    /\ \A j \in 0..(k - 1) : SubSeq(s, j + 1, j + Len(pat)) # pat
         IN SubSeq(s, 1, i) \o SubSeq(s, i + Len(pat) + 1, Len(s))
    ELSE s

\* s.split('_').pop(): what follows the last underscore
LastSegment(s) ==
    LET us == {i \in 1..Len(s) : s[i] = "_"}
    IN IF us = {} THEN s
       ELSE SubSeq(s, (CHOOSE i \in us : \A j \in us : j <= i) + 1, Len(s))

\* Array.prototype.slice(0, n)
Slice0(a, n) == SubSeq(a, 1, IF Len(a) < n THEN Len(a) ELSE n)

\* Array.prototype.filter: a new array of the elements the callback keeps,
\* visited and kept in index order; keep[i] is what the callback returns for a[i]
ArrayFilter(a, keep) ==
    LET acc[i \in 0..Len(a)] ==
            IF i = 0 THEN << >>
            ELSE IF keep[i] THEN Append(acc[i - 1], a[i]) ELSE acc[i - 1]
    IN acc[Len(a)]

\* Array.prototype.includes (SameValueZero on elements)
ArrayIncludes(a, x) == \E i \in 1..Len(a) : a[i] = x

(***************************************************************************)
(* Text constants of the source.                                           *)
(***************************************************************************)
\* "台湾" (app.js line 51)
MarkerZh == <<"U+53F0", "U+6E7E">>
\* "Taiwan" (app.js line 51)
MarkerEn == <<"T", "a", "i", "w", "a", "n">>
\* the adcode filtered out (app.js line 51)
ReservedAdcode == 710000
\* the rows of the unfiltered table (app.js lines 28 and 201)
TableCap == 50
\* the bars of the instrument chart (app.js line 169)
RankCap == 8
\* the characters of a title the table shows (app.js line 236)
TitleLimit == 35

(***************************************************************************)
(* Boundary geometry: the GeoJSON document of the second fetch.  A         *)
(* feature carries properties.name and properties.adcode; the document     *)
(* may come without a features array.                                      *)
(***************************************************************************)
Feature(name, adcode) == [properties |-> [name |-> name, adcode |-> adcode]]

GeoJson(features) == [hasFeatures |-> TRUE, features |-> features]

GeoNoFeatures == [hasFeatures |-> FALSE, features |-> << >>]

Beijing == <<"U+5317", "U+4EAC", "U+5E02">>
Sichuan == <<"U+56DB", "U+5DDD", "U+7701">>
Shanghai == <<"U+4E0A", "U+6D77", "U+5E02">>
TaiwanSheng == <<"U+53F0", "U+6E7E", "U+7701">>
TaiwanLower == <<"t", "a", "i", "w", "a", "n">>
TaiwanProvince == <<"T", "a", "i", "w", "a", "n", " ", "P">>
ReservedDigits == <<"7", "1", "0", "0", "0", "0">>
DashLineCode == <<"1", "0", "0", "0", "0", "0", "_", "J", "D">>

\* The features the geometry inputs are built from: regions to keep (with a
\* number or a string adcode, or a lower-case look-alike of a marker), and
\* regions the filter is there for: the reserved adcode as a number and as a
\* string, each marker, the empty name, the missing name and the null name.
FeatureUniverse ==
    { Feature(JStr(Beijing), JNum(110000)),
      Feature(JStr(Sichuan), JStr(<<"5", "1", "0", "0", "0", "0">>)),
      Feature(JStr(TaiwanLower), JNum(110000)),
      Feature(JStr(TaiwanSheng), JNum(ReservedAdcode)),
      Feature(JStr(TaiwanProvince), JUndef),
      Feature(JStr(TaiwanSheng), JNum(110000)),
      Feature(JStr(Shanghai), JNum(ReservedAdcode)),
      Feature(JStr(Shanghai), JStr(ReservedDigits)),
      Feature(JStr(<< >>), JStr(DashLineCode)),
      Feature(JUndef, JNum(110000)),
      Feature(Null, JStr(DashLineCode)) }

RECURSIVE SeqsUpTo(_, _)
\* the sequences over S of length at most n
SeqsUpTo(S, n) ==
    IF n = 0 THEN {<< >>}
    ELSE LET shorter == SeqsUpTo(S, n - 1)
         IN shorter \cup {Append(q, x) : q \in shorter, x \in S}

GeoInputs == {GeoNoFeatures} \cup {GeoJson(fs) : fs \in SeqsUpTo(FeatureUniverse, MaxFeatures)}

(***************************************************************************)
(* initMap, lines 46-55: the features filter.                              *)
(***************************************************************************)
\* the callback of lines 47-54 without its test for the empty name
FeatureKept_noEmptyTest(f) ==
    LET name == IF Truthy(f.properties.name) THEN f.properties.name.s ELSE << >>
        adcode == f.properties.adcode
    IN ~(\/ StrIncludes(name, MarkerZh)
         \/ StrIncludes(name, MarkerEn)
         \/ LooseEqNumber(adcode, ReservedAdcode))

\* the callback of lines 47-54: TRUE when the feature stays
FeatureKept(f) ==
    LET name == IF Truthy(f.properties.name) THEN f.properties.name.s ELSE << >>
        adcode == f.properties.adcode
    IN IF \/ StrIncludes(name, MarkerZh)
          \/ StrIncludes(name, MarkerEn)
          \/ LooseEqNumber(adcode, ReservedAdcode)
       THEN FALSE
       ELSE IF name = << >> THEN FALSE
       ELSE TRUE

RECURSIVE SpliceLoop(_, _)
\* removing in place while the index advances: the element that moves into
\* a removed element's place is not visited
SpliceLoop(a, i) ==
    IF i > Len(a) THEN a
    ELSE IF FeatureKept(a[i]) THEN SpliceLoop(a, i + 1)
    ELSE SpliceLoop(SubSeq(a, 1, i - 1) \o SubSeq(a, i + 1, Len(a)), i + 1)

SanitizedFeatures_spliceLoop(features) == SpliceLoop(features, 1)

\* geoJson.features.filter(f => ...), line 47
SanitizedFeatures(features) ==
    ArrayFilter(features, [i \in 1..Len(features) |-> FeatureKept(features[i])])

\* lines 46-55: geoJson after the guarded assignment to geoJson.features
SanitizedGeo(geoJson) ==
    IF geoJson.hasFeatures
    THEN [geoJson EXCEPT !.features = SanitizedFeatures(geoJson.features)]
    ELSE geoJson

(***************************************************************************)
(* The policy dataset: the JSON document of the first fetch.  Of its       *)
(* members the model keeps policies and global_instruments (the entries    *)
(* of the mapping in iteration order); summary, provinces and timeline     *)
(* feed only the KPI slots, the map series and the timeline chart.         *)
(***************************************************************************)
Tax == <<"t", "a", "x">>
TaxEx == <<"t", "a", "x", "_", "e", "x">>
FiscalSub == <<"f", "i", "s", "c", "a", "l", "_", "s", "u", "b">>
RdGrant == <<"r", "d", "_", "g", "r", "a", "n", "t">>

\* a {value, evidence} pair of a record's targets, subsidies, taxes or rd,
\* or null in its place
Detail(value, evidence) == [isNull |-> FALSE, value |-> value, evidence |-> evidence]
NullDetail == [isNull |-> TRUE, value |-> JUndef, evidence |-> JUndef]

\* an object of details: its entries <<key, detail>> in iteration order, or
\* the member missing from the record
Mapping(entries) == [present |-> TRUE, entries |-> entries]
NoMapping == [present |-> FALSE, entries |-> << >>]

\* the other array of a record, or the member missing
Others(tags) == [present |-> TRUE, tags |-> tags]
NoOthers == [present |-> FALSE, tags |-> << >>]

\* a record without details
Policy(id, title, province, year, instruments) ==
    [id |-> id, title |-> title, province |-> province, year |-> year,
     instruments |-> instruments, targets |-> NoMapping, subsidies |-> NoMapping,
     taxes |-> NoMapping, rd |-> NoMapping, other |-> NoOthers]

\* record p with the details d
WithDetails(p, d) ==
    [p EXCEPT !.targets = d.targets, !.subsidies = d.subsidies, !.taxes = d.taxes,
              !.rd = d.rd, !.other = d.other]

Details(targets, subsidies, taxes, rd, other) ==
    [targets |-> targets, subsidies |-> subsidies, taxes |-> taxes, rd |-> rd,
     other |-> other]

NoDetails == Details(NoMapping, NoMapping, NoMapping, NoMapping, NoOthers)

TargetVehicles == <<"t", "a", "r", "g", "e", "t", "_", "v", "e", "h", "i", "c", "l", "e", "s">>
TargetStations == <<"t", "a", "r", "g", "e", "t", "_", "h", "2", "_", "s", "t", "a", "t", "i", "o", "n", "s">>
BuySub == <<"b", "u", "y", "_", "s", "u", "b">>
LandUse == <<"l", "a", "n", "d", "_", "u", "s", "e">>
Quote1 == <<"q", "1">>
Quote2 == <<"q", "2">>

\* a target with a value and one without; a subsidy that taxes overrides
\* with an entry of evidence alone
DetailsA ==
    Details(Mapping(<<<<TargetVehicles, Detail(JNum(1000), JStr(Quote1))>>,
                      <<TargetStations, Detail(JUndef, JStr(Quote2))>>>>),
            Mapping(<<<<BuySub, Detail(JStr(<<"5">>), JStr(Quote1))>>>>),
            Mapping(<<<<BuySub, Detail(Null, JStr(Quote2))>>>>),
            NoMapping,
            Others(<<LandUse>>))

\* no targets; two subsidies, the second without value or evidence, which
\* taxes overrides with a value, the first overridden by rd
DetailsB ==
    Details(NoMapping,
            Mapping(<<<<BuySub, Detail(JStr(<<"5">>), JUndef)>>,
                      <<LandUse, Detail(JUndef, JUndef)>>>>),
            Mapping(<<<<LandUse, Detail(JNum(7), JUndef)>>>>),
            Mapping(<<<<BuySub, Detail(JUndef, JStr(Quote1))>>>>),
            Others(<< >>))

\* targets without a value, a subsidy without value or evidence, a null
DetailsC ==
    Details(Mapping(<<<<TargetStations, Detail(Null, Null)>>>>),
            Mapping(<<<<BuySub, Detail(JUndef, JUndef)>>>>),
            NoMapping,
            Mapping(<<<<LandUse, NullDetail>>>>),
            NoOthers)

\* what a record of the short collections holds besides its id and title
Bodies ==
    { [province |-> Beijing, instruments |-> <<TaxEx>>, details |-> DetailsA],
      [province |-> Beijing, instruments |-> <<FiscalSub, Tax>>, details |-> DetailsB],
      [province |-> Sichuan, instruments |-> << >>, details |-> NoDetails],
      [province |-> Sichuan, instruments |-> <<FiscalSub, TaxEx, Tax>>,
       details |-> DetailsC] }

\* the records of bodies bs, with ids p1, p2, ... and titles T1, T2, ...
WithIds(bs) ==
    [i \in 1..Len(bs) |->
        WithDetails(Policy(JStr(<<"p">> \o DecStr(i)), <<"T">> \o DecStr(i),
                           bs[i].province,
                           IF i % 2 = 1 THEN JNum(2019 + i) ELSE JUndef,
                           bs[i].instruments),
                    bs[i].details)]

\* a collection longer than the table's cap, all but one record of one province
LongPolicies ==
    [i \in 1..(TableCap + Overflow) |->
        WithDetails(Policy(JStr(<<"p">> \o DecStr(i)), <<"T">> \o DecStr(i % 3),
                           IF i = 7 THEN Sichuan ELSE Beijing, JNum(2000 + i),
                           IF i % 2 = 0 THEN <<TaxEx>> ELSE <<FiscalSub, Tax>>),
                    IF i % 3 = 0 THEN DetailsA
                    ELSE IF i % 3 = 1 THEN DetailsB ELSE NoDetails)]

Tallies ==
    { <<<<FiscalSub, 2>>, <<Tax, 2>>, <<TaxEx, 1>>>>,
      <<<<TaxEx, 1>>, <<RdGrant, 3>>>> }

LongTally == <<<<TaxEx, 26>>, <<FiscalSub, 26>>, <<Tax, 26>>>>

Dataset(policies, tally) == [policies |-> policies, global_instruments |-> tally]

Datasets ==
    {Dataset(WithIds(bs), t) : bs \in SeqsUpTo(Bodies, MaxPolicies), t \in Tallies}
        \cup {Dataset(LongPolicies, LongTally)}

\* the geometry documents of the dashboard's runs
DashboardGeos ==
    { GeoJson(<<Feature(JStr(Beijing), JNum(110000)),
                Feature(JStr(TaiwanSheng), JNum(ReservedAdcode)),
                Feature(JStr(Sichuan), JNum(510000)),
                Feature(JStr(<< >>), JStr(DashLineCode))>>),
      GeoNoFeatures }

\* A fetch's Response: no response yet, a body that is JSON (with the
\* document it parses to), or a body that is not
NoResponse(empty) == [kind |-> "none", doc |-> empty]
JsonResponse(doc) == [kind |-> "json", doc |-> doc]
NonJsonResponse(empty) == [kind |-> "nonjson", doc |-> empty]

EmptyDataset == Dataset(<< >>, << >>)

\* a local of initDashboard before its const is initialised
Unset(empty) == [set |-> FALSE, doc |-> empty]
Parsed(doc) == [set |-> TRUE, doc |-> doc]

\* the region names a map click may carry: regions with and without
\* records, and a click on no named region
ClickNames == {Beijing, Sichuan, Shanghai, << >>}

\* the targets of a click on the page
ClickTargets == {"overlay", "modal-body", "elsewhere"}

\* an id no record has
StrayId == <<"z", "z">>

\* the heading of the table as the page's HTML has it
InitialHeading == <<"E", "v", "i", "d", "e", "n", "c", "e">>

(***************************************************************************)
(* The state of the page.                                                  *)
(***************************************************************************)
VARIABLES
    pc,             \* where initDashboard is: "start", "awaitAll",
                    \* "awaitDataJson", "awaitGeoJson", "ready", "failed"
    dataFetch,      \* the promise of fetch('data/data.json')
    geoFetch,       \* the promise of the boundary-geometry fetch
    dataRes,        \* the Response of the first fetch
    geoRes,         \* the Response of the second fetch
    data,           \* const data of initDashboard, as it was parsed
    chinaGeo,       \* const chinaGeo of initDashboard (the object initMap changes)
    rawGeo,         \* the geometry document as it was parsed
    calls,          \* the rendering steps initDashboard has called, in order
    container,      \* '.container': the dashboard body or the error message
    registeredMap,  \* what echarts.registerMap('china', ...) was given
    instChart,      \* instChart.data: labels, rawKeys and the counts
    globalPolicies, \* let globalPolicies
    tableTitle,     \* '.evidence-locker h2' textContent
    tbody,          \* '#policy-tbody': the rows of the table
    shown,          \* the array the last renderTable call was given
    modalTitle,     \* '#modal-title' textContent
    modalBlocks,    \* '#modal-targets', '#modal-subsidies', '#modal-instruments'
    overlayHidden,  \* '#modal-overlay' has the class hidden
    lastAction,     \* the last selection action, with its argument
    prevAction,     \* the selection action before it
    passes          \* how often the features filter has been applied

vars ==
    <<pc, dataFetch, geoFetch, dataRes, geoRes, data, chinaGeo, rawGeo,
      calls, container, registeredMap, instChart, globalPolicies,
      tableTitle, tbody, shown, modalTitle, modalBlocks, overlayHidden, lastAction,
      prevAction,
      passes>>

loadVars == <<dataFetch, geoFetch, dataRes, geoRes, data, chinaGeo, rawGeo>>

modalVars == <<modalTitle, modalBlocks, overlayHidden>>

tableVars == <<tableTitle, tbody, shown, lastAction, prevAction>>

\* a selection action: its kind, its argument and, for a click on a bar of
\* the instrument chart, the bar's index (0 otherwise)
Selection(kind, arg) == [kind |-> kind, arg |-> arg, bar |-> 0]

NoSelection == Selection("none", << >>)

\* the three blocks of the modal before a record is opened
NoBlocks == [targets |-> << >>, subsidies |-> << >>, instruments |-> << >>]

EmptyChart == [labels |-> << >>, rawKeys |-> << >>, counts |-> << >>]

DashboardBody == [kind |-> "dashboard", message |-> ""]

Init ==
    /\ pc = "start"
    /\ dataFetch = "none"
    /\ geoFetch = "none"
    /\ dataRes = NoResponse(EmptyDataset)
    /\ geoRes = NoResponse(GeoNoFeatures)
    /\ data = Unset(EmptyDataset)
    /\ chinaGeo = Unset(GeoNoFeatures)
    /\ rawGeo = GeoNoFeatures
    /\ calls = << >>
    /\ container = DashboardBody
    /\ registeredMap = Unset(GeoNoFeatures)
    /\ instChart = EmptyChart
    /\ globalPolicies = << >>
    /\ tableTitle = InitialHeading
    /\ tbody = << >>
    /\ shown = << >>
    /\ modalTitle = << >>
    /\ modalBlocks = NoBlocks
    /\ overlayHidden = TRUE
    /\ lastAction = NoSelection
    /\ prevAction = NoSelection
    /\ passes = 0

(***************************************************************************)
(* renderTable, lines 227-242.                                             *)
(***************************************************************************)
\* line 230: the one row of an empty table
PlaceholderRow ==
    [kind |-> "placeholder", onclick |-> << >>, titleAttr |-> << >>,
     title |-> <<"N", "o", " ", "p", "o", "l", "i", "c", "i", "e", "s", " ",
                 "f", "o", "u", "n", "d", " ", "m", "a", "t", "c", "h", "i", "n", "g",
                 " ", "f", "i", "l", "t", "e", "r", ".">>,
     province |-> << >>, year |-> << >>, tags |-> << >>]

\* the title cell cutting a title of exactly TitleLimit characters as well
TitleCell_cutsAtLimit(title) ==
    IF Len(title) >= TitleLimit
    THEN SubSeq(title, 1, TitleLimit) \o <<".", ".", ".">>
    ELSE title

\* line 236: the text of the title cell
TitleCell(title) ==
    IF Len(title) > TitleLimit
    THEN SubSeq(title, 1, TitleLimit) \o <<".", ".", ".">>
    ELSE title

\* lines 235-240: the <tr> of record p
PolicyRow(p) ==
    [kind |-> "policy", onclick |-> ToString(p.id), titleAttr |-> p.title,
     title |-> TitleCell(p.title), province |-> p.province,
     year |-> IF Truthy(p.year) THEN ToString(p.year) ELSE <<"-">>,
     tags |-> [j \in 1..Len(Slice0(p.instruments, 2)) |-> LastSegment(p.instruments[j])]]

\* lines 234-241 alone, without the test of line 229
TableRows_noEmptyTest(policies) == [i \in 1..Len(policies) |-> PolicyRow(policies[i])]

\* lines 229-241: what tbody.innerHTML is set to
TableRows(policies) ==
    IF Len(policies) = 0 THEN <<PlaceholderRow>>
    ELSE [i \in 1..Len(policies) |-> PolicyRow(policies[i])]

renderTable(policies) ==
    /\ tbody' = TableRows(policies)
    /\ shown' = policies

\* x.slice(0, 50) without its bounds
DefaultView_uncapped(policies) == policies

\* lines 28 and 201: x.slice(0, 50)
DefaultView(policies) == Slice0(policies, TableCap)

(***************************************************************************)
(* openModal, lines 245-295: the three blocks of the modal.  A block is a  *)
(* sequence of elements: detail items, tags, or the one paragraph of an    *)
(* empty block.                                                            *)
(***************************************************************************)
\* lines 260-264 and 277-281: a <div class="detail-item">, its quote there
\* when the evidence is truthy
DetailItem(name, value, evidence) ==
    [kind |-> "item", name |-> name, value |-> value,
     hasQuote |-> Truthy(evidence),
     quote |-> IF Truthy(evidence) THEN ToString(evidence) ELSE << >>]

\* a <p> holding text
Paragraph(text) ==
    [kind |-> "p", name |-> << >>, value |-> text, hasQuote |-> FALSE, quote |-> << >>]

\* line 290: a <div class="tag">
TagItem(tag) ==
    [kind |-> "tag", name |-> << >>, value |-> tag, hasQuote |-> FALSE, quote |-> << >>]

\* line 269
NoTargetsText ==
    <<"N", "o", " ", "s", "p", "e", "c", "i", "f", "i", "c", " ", "q", "u", "a", "n",
      "t", "i", "t", "a", "t", "i", "v", "e", " ", "t", "a", "r", "g", "e", "t", "s",
      " ", "f", "o", "u", "n", "d", ".">>

\* line 285
NoFinanceText ==
    <<"N", "o", " ", "s", "p", "e", "c", "i", "f", "i", "c", " ", "f", "i", "n", "a",
      "n", "c", "i", "a", "l", " ", "i", "n", "s", "t", "r", "u", "m", "e", "n", "t",
      "s", " ", "f", "o", "u", "n", "d", ".">>

\* line 292
NoneText == <<"N", "o", "n", "e", ".">>

\* line 279
YesText == <<"Y", "e", "s">>

\* line 261: k.replace('target_', '').replace(/_/g, ' ')
TargetLabel(k) ==
    ReplaceAllChar(RemoveFirst(k, <<"t", "a", "r", "g", "e", "t", "_">>), "_", " ")

\* line 262: `${v.value} ${k.includes('vehicle') ? 'Vehicles' : ''}`
TargetValue(k, v) ==
    ToString(v.value) \o <<" ">>
        \o (IF StrIncludes(k, <<"v", "e", "h", "i", "c", "l", "e">>)
            THEN <<"V", "e", "h", "i", "c", "l", "e", "s">> ELSE << >>)

\* lines 257-267: the items of the targets whose value is truthy
TargetItems(entries) ==
    LET kept == ArrayFilter(entries,
                            [i \in 1..Len(entries) |->
                                ~entries[i][2].isNull /\ Truthy(entries[i][2].value)])
    IN [i \in 1..Len(kept) |->
           DetailItem(TargetLabel(kept[i][1]), TargetValue(kept[i][1], kept[i][2]),
                      kept[i][2].evidence)]

\* lines 255-269: targetsDiv.innerHTML
TargetsBlock(p) ==
    LET targetHtml == IF p.targets.present THEN TargetItems(p.targets.entries) ELSE << >>
    IN IF targetHtml = << >> THEN <<Paragraph(NoTargetsText)>> ELSE targetHtml

\* one property copied into an object: a key the object has keeps its place
\* and takes the new value, a new key goes last
PutEntry(obj, e) ==
    IF \E i \in 1..Len(obj) : obj[i][1] = e[1]
    THEN [i \in 1..Len(obj) |-> IF obj[i][1] = e[1] THEN e ELSE obj[i]]
    ELSE Append(obj, e)

RECURSIVE SpreadInto(_, _)
\* ...source in an object literal: the own properties of source, in order
SpreadInto(obj, entries) ==
    IF entries = << >> THEN obj
    ELSE SpreadInto(PutEntry(obj, entries[1]), Tail(entries))

\* the three objects merged the other way round
AllFinance_subsidiesLast(p) ==
    SpreadInto(SpreadInto(SpreadInto(<< >>, p.rd.entries), p.taxes.entries),
               p.subsidies.entries)

\* line 273: { ...p.subsidies, ...p.taxes, ...p.rd }; a missing member
\* spreads to nothing
AllFinance(p) ==
    SpreadInto(SpreadInto(SpreadInto(<< >>, p.subsidies.entries), p.taxes.entries),
               p.rd.entries)

\* line 275: v && (v.value || v.evidence)
FinanceShown(v) == ~v.isNull /\ (Truthy(v.value) \/ Truthy(v.evidence))

\* lines 274-284: the items of the merged entries that are shown
FinanceItems(entries) ==
    LET kept == ArrayFilter(entries,
                            [i \in 1..Len(entries) |-> FinanceShown(entries[i][2])])
    IN [i \in 1..Len(kept) |->
           DetailItem(ReplaceAllChar(kept[i][1], "_", " "),
                      IF Truthy(kept[i][2].value) THEN ToString(kept[i][2].value)
                      ELSE YesText,
                      kept[i][2].evidence)]

\* lines 272-285: subsidyDiv.innerHTML
SubsidiesBlock(p) ==
    LET subHtml == FinanceItems(AllFinance(p))
    IN IF subHtml = << >> THEN <<Paragraph(NoFinanceText)>> ELSE subHtml

\* lines 288-292: instDiv.innerHTML
OtherBlock(p) ==
    IF p.other.present /\ Len(p.other.tags) > 0
    THEN [i \in 1..Len(p.other.tags) |-> TagItem(p.other.tags[i])]
    ELSE <<Paragraph(NoneText)>>

\* lines 250-292: the three blocks for record p
ModalBlocks(p) ==
    [targets |-> TargetsBlock(p), subsidies |-> SubsidiesBlock(p),
     instruments |-> OtherBlock(p)]

(***************************************************************************)
(* initCharts, lines 166-184: the instrument chart's data.                 *)
(***************************************************************************)
RECURSIVE SortByCountDesc_tiesReversed(_)
\* a sort that puts an entry ahead of the earlier entries of its count
SortByCountDesc_tiesReversed(entries) ==
    IF entries = << >> THEN << >>
    ELSE LET n == Len(entries)
             e == entries[n]
             sorted == SortByCountDesc_tiesReversed(SubSeq(entries, 1, n - 1))
             ahead == Cardinality({i \in 1..Len(sorted) : sorted[i][2] > e[2]})
         IN SubSeq(sorted, 1, ahead) \o <<e>> \o SubSeq(sorted, ahead + 1, Len(sorted))

RECURSIVE SortByCountDesc(_)
\* entries.sort((a, b) => b[1] - a[1]): by count, largest first; entries of
\* equal count keep their order (Array.prototype.sort is stable)
SortByCountDesc(entries) ==
    IF entries = << >> THEN << >>
    ELSE LET n == Len(entries)
             e == entries[n]
             sorted == SortByCountDesc(SubSeq(entries, 1, n - 1))
             ahead == Cardinality({i \in 1..Len(sorted) : sorted[i][2] >= e[2]})
         IN SubSeq(sorted, 1, ahead) \o <<e>> \o SubSeq(sorted, ahead + 1, Len(sorted))

\* lines 167-169
SortedInst(global_instruments) == Slice0(SortByCountDesc(global_instruments), RankCap)

\* line 175: the label of a bar
BarLabel(code) ==
    RemoveFirst(RemoveFirst(ReplaceAllChar(code, "_", " "),
                            <<"f", "i", "s", "c", "a", "l", " ">>),
                <<"t", "a", "x", " ">>)

\* lines 173-180: labels, rawKeys and datasets[0].data
ChartData(global_instruments) ==
    LET sortedInst == SortedInst(global_instruments)
    IN [labels |-> [i \in 1..Len(sortedInst) |-> BarLabel(sortedInst[i][1])],
        rawKeys |-> [i \in 1..Len(sortedInst) |-> sortedInst[i][1]],
        counts |-> [i \in 1..Len(sortedInst) |-> sortedInst[i][2]]]

(***************************************************************************)
(* filterTableByInstrument and filterTableByProvince, lines 211-225.       *)
(***************************************************************************)
HeadingUsing == <<"P", "o", "l", "i", "c", "i", "e", "s", " ", "u", "s", "i", "n", "g", ":", " ">>
HeadingIn == <<"P", "o", "l", "i", "c", "i", "e", "s", " ", "i", "n", ":", " ">>

\* a test by substring of a code
InstrumentMatches_substring(p, instrumentKey) ==
    \E i \in 1..Len(p.instruments) : StrIncludes(p.instruments[i], instrumentKey)

\* line 215: p.instruments.includes(instrumentKey)
InstrumentMatches(p, instrumentKey) == ArrayIncludes(p.instruments, instrumentKey)

\* line 223: p.province === provinceName
ProvinceMatches(p, provinceName) == p.province = provinceName

\* the filter applied to the rows on display
filterTableByInstrument_narrowing(instrumentKey) ==
    /\ tableTitle' = HeadingUsing \o ReplaceAllChar(instrumentKey, "_", " ")
    /\ LET filtered ==
               ArrayFilter(shown, [i \in 1..Len(shown) |->
                                      InstrumentMatches(shown[i], instrumentKey)])
       IN renderTable(filtered)
    /\ UNCHANGED globalPolicies

filterTableByInstrument(instrumentKey) ==
    /\ tableTitle' = HeadingUsing \o ReplaceAllChar(instrumentKey, "_", " ")
    /\ LET filtered ==
               ArrayFilter(globalPolicies,
                           [i \in 1..Len(globalPolicies) |->
                               InstrumentMatches(globalPolicies[i], instrumentKey)])
       IN renderTable(filtered)
    /\ UNCHANGED globalPolicies

\* the filter with the cap of the default view
filterTableByProvince_capped(provinceName) ==
    /\ tableTitle' = HeadingIn \o provinceName
    /\ LET filtered ==
               ArrayFilter(globalPolicies,
                           [i \in 1..Len(globalPolicies) |->
                               ProvinceMatches(globalPolicies[i], provinceName)])
       IN renderTable(Slice0(filtered, TableCap))
    /\ UNCHANGED globalPolicies

\* the filter showing its matches last first
filterTableByProvince_lastFirst(provinceName) ==
    /\ tableTitle' = HeadingIn \o provinceName
    /\ LET filtered ==
               ArrayFilter(globalPolicies,
                           [i \in 1..Len(globalPolicies) |->
                               ProvinceMatches(globalPolicies[i], provinceName)])
       IN renderTable([i \in 1..Len(filtered) |-> filtered[Len(filtered) + 1 - i]])
    /\ UNCHANGED globalPolicies

filterTableByProvince(provinceName) ==
    /\ tableTitle' = HeadingIn \o provinceName
    /\ LET filtered ==
               ArrayFilter(globalPolicies,
                           [i \in 1..Len(globalPolicies) |->
                               ProvinceMatches(globalPolicies[i], provinceName)])
       IN renderTable(filtered)
    /\ UNCHANGED globalPolicies

\* what follows a selection action: the action is the last one
Selected(kind, arg) ==
    /\ lastAction' = Selection(kind, arg)
    /\ prevAction' = lastAction

\* what follows a click on bar index that passed key to the filter
SelectedBar(index, key) ==
    /\ lastAction' = [Selection("instrument", key) EXCEPT !.bar = index]
    /\ prevAction' = lastAction

(***************************************************************************)
(* initDashboard, lines 7-34.  It runs to its first await when the         *)
(* document has loaded, and resumes when the awaited promise settles: no   *)
(* event is handled between a promise settling and the code awaiting it    *)
(* resuming, so a settling and the resumption are one step.                *)
(***************************************************************************)
DataResponses ==
    {JsonResponse(d) : d \in Datasets} \cup {NonJsonResponse(EmptyDataset)}

GeoResponses ==
    {JsonResponse(g) : g \in DashboardGeos} \cup {NonJsonResponse(GeoNoFeatures)}

\* Promise.all of two promises, line 10: rejected as soon as one is,
\* fulfilled when both are
PromiseAll(a, b) ==
    IF a = "rejected" \/ b = "rejected" THEN "rejected"
    ELSE IF a = "fulfilled" /\ b = "fulfilled" THEN "fulfilled"
    ELSE "pending"

\* a catch block that only logs
Catch_logOnly(e) ==
    /\ pc' = "failed"
    /\ UNCHANGED container

\* lines 30-33: the catch block
Catch(e) ==
    /\ pc' = "failed"
    /\ container' = [kind |-> "error", message |-> e]

\* line 10: initDashboard resumes from await Promise.all(...), or goes on waiting
ResumeFromAll(all, e) ==
    IF pc = "awaitAll" /\ all = "rejected" THEN Catch(e)
    ELSE IF pc = "awaitAll" /\ all = "fulfilled"
    THEN pc' = "awaitDataJson" /\ UNCHANGED container
    ELSE UNCHANGED <<pc, container>>

\* line 310: the document has loaded; lines 10-13: both fetches are started
DOMContentLoaded ==
    /\ pc = "start"
    /\ pc' = "awaitAll"
    /\ dataFetch' = "pending"
    /\ geoFetch' = "pending"
    /\ UNCHANGED <<dataRes, geoRes, data, chinaGeo, rawGeo, calls,
                   container, registeredMap, instChart, globalPolicies, tableVars,
                   modalVars, passes>>

\* line 11: the first fetch settles
DataFetchSettles ==
    /\ dataFetch = "pending"
    /\ \E res \in DataResponses \cup {NoResponse(EmptyDataset)} :
          /\ dataRes' = res
          /\ dataFetch' = IF res.kind = "none" THEN "rejected" ELSE "fulfilled"
          /\ ResumeFromAll(PromiseAll(dataFetch', geoFetch), "data fetch rejected")
    /\ UNCHANGED <<geoFetch, geoRes, data, chinaGeo, rawGeo, calls,
                   registeredMap, instChart, globalPolicies, tableVars, modalVars,
                   passes>>

\* line 12: the second fetch settles
GeoFetchSettles ==
    /\ geoFetch = "pending"
    /\ \E res \in GeoResponses \cup {NoResponse(GeoNoFeatures)} :
          /\ geoRes' = res
          /\ geoFetch' = IF res.kind = "none" THEN "rejected" ELSE "fulfilled"
          /\ ResumeFromAll(PromiseAll(dataFetch, geoFetch'), "geo fetch rejected")
    /\ UNCHANGED <<dataFetch, dataRes, data, chinaGeo, rawGeo, calls,
                   registeredMap, instChart, globalPolicies, tableVars, modalVars,
                   passes>>

\* lines 19-28 run as soon as the dataset is parsed
DataJsonSettles_rendersEarly ==
    /\ pc = "awaitDataJson"
    /\ IF dataRes.kind = "json"
       THEN /\ data' = Parsed(dataRes.doc)
            /\ calls' = <<"renderKPIs", "initCharts", "renderTable">>
            /\ globalPolicies' = dataRes.doc.policies
            /\ instChart' = ChartData(dataRes.doc.global_instruments)
            /\ renderTable(DefaultView(dataRes.doc.policies))
            /\ Selected("load", << >>)
            /\ pc' = "awaitGeoJson"
            /\ UNCHANGED container
       ELSE /\ Catch("data body is not JSON")
            /\ UNCHANGED <<data, calls, globalPolicies, instChart,
                           tbody, shown, lastAction, prevAction>>
    /\ UNCHANGED <<dataFetch, geoFetch, dataRes, geoRes, chinaGeo, rawGeo,
                   registeredMap, tableTitle, modalVars, passes>>

\* line 15: dataRes.json() settles
DataJsonSettles ==
    /\ pc = "awaitDataJson"
    /\ IF dataRes.kind = "json"
       THEN /\ data' = Parsed(dataRes.doc)
            /\ pc' = "awaitGeoJson"
            /\ UNCHANGED container
       ELSE /\ Catch("data body is not JSON")
            /\ UNCHANGED data
    /\ UNCHANGED <<dataFetch, geoFetch, dataRes, geoRes, chinaGeo, rawGeo, calls,
                   registeredMap, instChart, globalPolicies, tableVars, modalVars,
                   passes>>

\* lines 42-58: initMap filters geoJson.features in place and registers the map
initMap(geoJson) ==
    /\ chinaGeo' = Parsed(SanitizedGeo(geoJson))
    /\ registeredMap' = Parsed(SanitizedGeo(geoJson))
    /\ passes' = passes + 1

\* lines 136-137 and 166-184: initCharts
initCharts(d) ==
    /\ globalPolicies' = d.policies
    /\ instChart' = ChartData(d.global_instruments)

\* line 16: geoRes.json() settles; lines 19-28: the dashboard is rendered
GeoJsonSettles ==
    /\ pc = "awaitGeoJson"
    /\ IF geoRes.kind = "json"
       THEN /\ rawGeo' = geoRes.doc
            /\ calls' = calls \o <<"renderKPIs", "initMap", "initCharts", "renderTable">>
            /\ initMap(geoRes.doc)
            /\ initCharts(data.doc)
            /\ renderTable(DefaultView(data.doc.policies))
            /\ Selected("load", << >>)
            /\ pc' = "ready"
            /\ UNCHANGED container
       ELSE /\ Catch("geo body is not JSON")
            /\ UNCHANGED <<chinaGeo, rawGeo, calls, registeredMap, instChart,
                           globalPolicies, tbody, shown, lastAction, prevAction,
                           passes>>
    /\ UNCHANGED <<dataFetch, geoFetch, dataRes, geoRes, data,
                   tableTitle, modalVars>>

(***************************************************************************)
(* The event handlers.  The map's and the chart's exist once initMap and   *)
(* initCharts have run; a handler runs to completion.                      *)
(***************************************************************************)
\* lines 124-128: a click on the map
MapClick(name) ==
    /\ pc = "ready"
    /\ IF name # << >>
       THEN /\ filterTableByProvince(name)
            /\ Selected("province", name)
       ELSE UNCHANGED <<tableVars, globalPolicies>>
    /\ UNCHANGED <<pc, loadVars, calls, container, registeredMap, instChart,
                   modalVars, passes>>

\* the reset branch taking the rows out of the collection: splice(0, 50)
ResetTable_splice ==
    /\ renderTable(DefaultView(globalPolicies))
    /\ globalPolicies' = SubSeq(globalPolicies, Len(DefaultView(globalPolicies)) + 1,
                                Len(globalPolicies))

\* line 201: renderTable(globalPolicies.slice(0, 50))
ResetTable ==
    /\ renderTable(DefaultView(globalPolicies))
    /\ UNCHANGED globalPolicies

\* the click handler taking the bar's label for the instrument's code
instChartOnClick_byLabel(elements) ==
    /\ pc = "ready"
    /\ IF Len(elements) > 0
       THEN LET rawKey == instChart.labels[elements[1]]
            IN /\ filterTableByInstrument(rawKey)
               /\ SelectedBar(elements[1], rawKey)
       ELSE /\ ResetTable
            /\ Selected("clear", << >>)
            /\ UNCHANGED tableTitle
    /\ UNCHANGED <<pc, loadVars, calls, container, registeredMap, instChart,
                   modalVars, passes>>

\* lines 194-203: a click on the instrument chart; elements holds the index
\* of the bar clicked (counted from 1 here), or nothing
instChartOnClick(elements) ==
    /\ pc = "ready"
    /\ IF Len(elements) > 0
       THEN LET rawKey == instChart.rawKeys[elements[1]]
            IN /\ filterTableByInstrument(rawKey)
               /\ SelectedBar(elements[1], rawKey)
       ELSE /\ ResetTable
            /\ Selected("clear", << >>)
            /\ UNCHANGED tableTitle
    /\ UNCHANGED <<pc, loadVars, calls, container, registeredMap, instChart,
                   modalVars, passes>>

\* a lookup that falls back on the first record when it finds none
openModal_fallbackFirst(policyId) ==
    LET found == {i \in 1..Len(globalPolicies) : globalPolicies[i].id = JStr(policyId)}
    IN /\ IF found = {} /\ globalPolicies = << >>
          THEN UNCHANGED modalVars
          ELSE LET p == IF found = {} THEN globalPolicies[1]
                        ELSE globalPolicies[CHOOSE i \in found : \A j \in found : i <= j]
               IN /\ modalTitle' = p.title
                  /\ modalBlocks' = ModalBlocks(p)
                  /\ overlayHidden' = FALSE
       /\ UNCHANGED <<pc, loadVars, calls, container, registeredMap, instChart,
                      globalPolicies, tableVars, passes>>

\* lines 245-295: openModal
openModal(policyId) ==
    LET found == {i \in 1..Len(globalPolicies) : globalPolicies[i].id = JStr(policyId)}
    IN /\ IF found = {}
          THEN UNCHANGED modalVars
          ELSE LET p == globalPolicies[CHOOSE i \in found : \A j \in found : i <= j]
               IN /\ modalTitle' = p.title
                  /\ modalBlocks' = ModalBlocks(p)
                  /\ overlayHidden' = FALSE
       /\ UNCHANGED <<pc, loadVars, calls, container, registeredMap, instChart,
                      globalPolicies, tableVars, passes>>

\* a row passing its index in the table, and the record taken at that index
\* of the collection
RowClick_byIndex(i) ==
    /\ i \in 1..Len(tbody)
    /\ tbody[i].kind = "policy"
    /\ modalTitle' = globalPolicies[i].title
    /\ modalBlocks' = ModalBlocks(globalPolicies[i])
    /\ overlayHidden' = FALSE
    /\ UNCHANGED <<pc, loadVars, calls, container, registeredMap, instChart,
                   globalPolicies, tableVars, passes>>

\* line 235: a click on a row of the table
RowClick(i) ==
    /\ i \in 1..Len(tbody)
    /\ tbody[i].kind = "policy"
    /\ openModal(tbody[i].onclick)

\* lines 297-299: closeModal
closeModal ==
    /\ overlayHidden' = TRUE
    /\ UNCHANGED <<pc, loadVars, calls, container, registeredMap, instChart,
                   globalPolicies, tableVars, modalTitle, modalBlocks, passes>>

\* a window click that closes the modal whatever its target
WindowOnClick_anyTarget(target) == closeModal

\* lines 302-307: window.onclick
WindowOnClick(target) ==
    IF target = "overlay" THEN closeModal ELSE UNCHANGED vars

Next ==
    \/ DOMContentLoaded
    \/ DataFetchSettles
    \/ GeoFetchSettles
    \/ DataJsonSettles
    \/ GeoJsonSettles
    \/ \E name \in ClickNames : MapClick(name)
    \/ \E elements \in {<< >>} \cup {<<i>> : i \in 1..Len(instChart.rawKeys)} :
          instChartOnClick(elements)
    \/ \E i \in 1..Len(tbody) : RowClick(i)
    \/ openModal(StrayId)
    \/ closeModal
    \/ \E target \in ClickTargets : WindowOnClick(target)

Spec == Init /\ [][Next]_vars

(***************************************************************************)
(* The features filter on its own: every geometry document, filtered and   *)
(* filtered again.                                                         *)
(***************************************************************************)
SanInit ==
    /\ pc = "sanitizer"
    /\ \E g \in GeoInputs :
          /\ chinaGeo = Parsed(g)
          /\ rawGeo = g
    /\ dataFetch = "none"
    /\ geoFetch = "none"
    /\ dataRes = NoResponse(EmptyDataset)
    /\ geoRes = NoResponse(GeoNoFeatures)
    /\ data = Unset(EmptyDataset)
    /\ calls = << >>
    /\ container = DashboardBody
    /\ registeredMap = Unset(GeoNoFeatures)
    /\ instChart = EmptyChart
    /\ globalPolicies = << >>
    /\ tableTitle = InitialHeading
    /\ tbody = << >>
    /\ shown = << >>
    /\ modalTitle = << >>
    /\ modalBlocks = NoBlocks
    /\ overlayHidden = TRUE
    /\ lastAction = NoSelection
    /\ prevAction = NoSelection
    /\ passes = 0

\* lines 46-55 applied to the document at hand
SanitizePass ==
    /\ pc = "sanitizer"
    /\ passes < MaxPasses
    /\ initMap(chinaGeo.doc)
    /\ UNCHANGED <<pc, dataFetch, geoFetch, dataRes, geoRes, data, rawGeo,
                   calls, container, instChart, globalPolicies,
                   tableVars, modalVars>>

SanNext == SanitizePass

SanSpec == SanInit /\ [][SanNext]_vars

(***************************************************************************)
(* The instrument ranking on its own: every mapping of up to               *)
(* RankCap + RankOverflow instrument codes to counts, ranked and ranked    *)
(* again.                                                                  *)
(***************************************************************************)
\* the i-th key of a mapping
InstCode(i) == <<"c", "_">> \o DecStr(i)

\* the counts an instrument may have
TallyCounts == {1, 2, 3}

\* data.global_instruments with the counts c: the keys are distinct
TallyOf(c) == [i \in DOMAIN c |-> <<InstCode(i), c[i]>>]

RankInit ==
    /\ pc = "rank"
    /\ \E n \in 0..(RankCap + RankOverflow) : \E c \in [1..n -> TallyCounts] :
          data = Parsed(Dataset(<< >>, TallyOf(c)))
    /\ dataFetch = "none"
    /\ geoFetch = "none"
    /\ dataRes = NoResponse(EmptyDataset)
    /\ geoRes = NoResponse(GeoNoFeatures)
    /\ chinaGeo = Unset(GeoNoFeatures)
    /\ rawGeo = GeoNoFeatures
    /\ calls = << >>
    /\ container = DashboardBody
    /\ registeredMap = Unset(GeoNoFeatures)
    /\ instChart = EmptyChart
    /\ globalPolicies = << >>
    /\ tableTitle = InitialHeading
    /\ tbody = << >>
    /\ shown = << >>
    /\ modalTitle = << >>
    /\ modalBlocks = NoBlocks
    /\ overlayHidden = TRUE
    /\ lastAction = NoSelection
    /\ prevAction = NoSelection
    /\ passes = 0

\* initCharts applied to the dataset at hand
RankPass ==
    /\ pc = "rank"
    /\ passes < MaxPasses
    /\ initCharts(data.doc)
    /\ passes' = passes + 1
    /\ UNCHANGED <<pc, loadVars, calls, container, registeredMap,
                   tableVars, modalVars>>

RankNext == RankPass

RankSpec == RankInit /\ [][RankNext]_vars

(***************************************************************************)
(* The handlers on the short collections: initDashboard has parsed both    *)
(* bodies and is about to render, then any handler runs.                   *)
(***************************************************************************)
ShortDatasets == Datasets \ {Dataset(LongPolicies, LongTally)}

HandlerInit ==
    /\ pc = "awaitGeoJson"
    /\ dataFetch = "fulfilled"
    /\ geoFetch = "fulfilled"
    /\ \E d \in ShortDatasets :
          /\ dataRes = JsonResponse(d)
          /\ data = Parsed(d)
    /\ \E g \in DashboardGeos : geoRes = JsonResponse(g)
    /\ chinaGeo = Unset(GeoNoFeatures)
    /\ rawGeo = GeoNoFeatures
    /\ calls = << >>
    /\ container = DashboardBody
    /\ registeredMap = Unset(GeoNoFeatures)
    /\ instChart = EmptyChart
    /\ globalPolicies = << >>
    /\ tableTitle = InitialHeading
    /\ tbody = << >>
    /\ shown = << >>
    /\ modalTitle = << >>
    /\ modalBlocks = NoBlocks
    /\ overlayHidden = TRUE
    /\ lastAction = NoSelection
    /\ prevAction = NoSelection
    /\ passes = 0

HandlerNext ==
    \/ GeoJsonSettles
    \/ \E name \in ClickNames : MapClick(name)
    \/ \E elements \in {<< >>} \cup {<<i>> : i \in 1..Len(instChart.rawKeys)} :
          instChartOnClick(elements)
    \/ \E i \in 1..Len(tbody) : RowClick(i)
    \/ openModal(StrayId)
    \/ closeModal
    \/ \E target \in ClickTargets : WindowOnClick(target)

HandlerSpec == HandlerInit /\ [][HandlerNext]_vars

(***************************************************************************)
(* The financial block on its own: one record whose subsidies, taxes and   *)
(* rd are drawn from the mappings over two keys, opened in the modal.      *)
(***************************************************************************)
\* the entries a mapping of one source may give a key: null, neither value
\* nor evidence, a value, evidence, both; the texts name the source
FinanceValues(tag) ==
    { NullDetail,
      Detail(JUndef, JUndef),
      Detail(JStr(<<tag>>), JUndef),
      Detail(Null, JStr(<<tag, "e">>)),
      Detail(JStr(<<tag>>), JStr(<<tag, "e">>)) }

\* a source missing, with the key first alone, or with first and then second
FinanceInputs(tag, first, second) ==
    {NoMapping}
        \cup {Mapping(<<<<first, v>>>>) : v \in FinanceValues(tag)}
        \cup {Mapping(<<<<first, v>>, <<second, w>>>>) :
                 v \in FinanceValues(tag), w \in FinanceValues(tag)}

FinInit ==
    /\ pc = "modal"
    /\ \E s \in FinanceInputs("s", BuySub, LandUse),
          t \in FinanceInputs("t", LandUse, BuySub),
          r \in FinanceInputs("r", BuySub, LandUse) :
          globalPolicies =
              <<WithDetails(Policy(JStr(<<"p", "1">>), <<"T", "1">>, Beijing, JUndef, << >>),
                            Details(NoMapping, s, t, r, NoOthers))>>
    /\ dataFetch = "none"
    /\ geoFetch = "none"
    /\ dataRes = NoResponse(EmptyDataset)
    /\ geoRes = NoResponse(GeoNoFeatures)
    /\ data = Unset(EmptyDataset)
    /\ chinaGeo = Unset(GeoNoFeatures)
    /\ rawGeo = GeoNoFeatures
    /\ calls = << >>
    /\ container = DashboardBody
    /\ registeredMap = Unset(GeoNoFeatures)
    /\ instChart = EmptyChart
    /\ tableTitle = InitialHeading
    /\ tbody = << >>
    /\ shown = << >>
    /\ modalTitle = << >>
    /\ modalBlocks = NoBlocks
    /\ overlayHidden = TRUE
    /\ lastAction = NoSelection
    /\ prevAction = NoSelection
    /\ passes = 0

\* openModal called with the record's id
OpenRecord ==
    /\ pc = "modal"
    /\ openModal(ToString(globalPolicies[1].id))

FinNext == OpenRecord

FinSpec == FinInit /\ [][FinNext]_vars

(***************************************************************************)
(* The title cell on its own: one record with a title of every length up   *)
(* to MaxTitleLen, rendered as a row.                                      *)
(***************************************************************************)
\* a title of n characters, its first k an "a" and the rest a "b"
TitleOf(n, k) == [i \in 1..n |-> IF i <= k THEN "a" ELSE "b"]

TitleInit ==
    /\ pc = "title"
    /\ \E n \in 0..MaxTitleLen : \E k \in 0..n :
          globalPolicies = <<Policy(JStr(<<"p", "1">>), TitleOf(n, k), Beijing, JUndef, << >>)>>
    /\ dataFetch = "none"
    /\ geoFetch = "none"
    /\ dataRes = NoResponse(EmptyDataset)
    /\ geoRes = NoResponse(GeoNoFeatures)
    /\ data = Unset(EmptyDataset)
    /\ chinaGeo = Unset(GeoNoFeatures)
    /\ rawGeo = GeoNoFeatures
    /\ calls = << >>
    /\ container = DashboardBody
    /\ registeredMap = Unset(GeoNoFeatures)
    /\ instChart = EmptyChart
    /\ tableTitle = InitialHeading
    /\ tbody = << >>
    /\ shown = << >>
    /\ modalTitle = << >>
    /\ modalBlocks = NoBlocks
    /\ overlayHidden = TRUE
    /\ lastAction = NoSelection
    /\ prevAction = NoSelection
    /\ passes = 0

\* renderTable called with the collection
RenderRows ==
    /\ pc = "title"
    /\ renderTable(globalPolicies)
    /\ UNCHANGED <<pc, loadVars, calls, container, registeredMap, instChart,
                   globalPolicies, tableTitle, lastAction, prevAction, modalVars,
                   passes>>

TitleNext == RenderRows

TitleSpec == TitleInit /\ [][TitleNext]_vars

(***************************************************************************)
(* The properties.  What a property expects is written here from the       *)
(* statement, with SelectSeq and SubSeq, and not with the operators above. *)
(***************************************************************************)
Min(a, b) == IF a < b THEN a ELSE b

FirstRecords(coll, n) == SubSeq(coll, 1, Min(Len(coll), n))

RecordsOfProvince(coll, name) == SelectSeq(coll, LAMBDA p : p.province = name)

RecordsUsing(coll, code) ==
    SelectSeq(coll, LAMBDA p : \E i \in DOMAIN p.instruments : p.instruments[i] = code)

\* the records a selection action makes visible, given the collection
VisibleFor(sel, coll) ==
    CASE sel.kind = "province" -> RecordsOfProvince(coll, sel.arg)
      [] sel.kind = "instrument" -> RecordsUsing(coll, sel.arg)
      [] OTHER -> FirstRecords(coll, 50)

\* C1: once the dashboard is loaded, the rows of the table are determined by
\* the last selection action (its kind and argument) and the canonical
\* collection alone, whatever was selected before: a selection replaces the
\* one before it, and repeating it gives the same rows.
C1_RowsFollowLastAction ==
    pc = "ready" =>
        /\ shown = VisibleFor(lastAction, globalPolicies)
        /\ tbody = TableRows(VisibleFor(lastAction, globalPolicies))

\* a province selected after an instrument, showing a record that the
\* instrument selection had excluded
C1_Witness ==
    /\ pc = "ready"
    /\ prevAction.kind = "instrument"
    /\ lastAction.kind = "province"
    /\ \E i \in DOMAIN shown :
          \A j \in DOMAIN shown[i].instruments : shown[i].instruments[j] # prevAction.arg

\* C2: after filterTableByProvince(P) the table shows exactly the records
\* whose province is P, in collection order and however many they are; when
\* there is none it shows the placeholder row, and no error is shown.
C2_ProvinceFilterExact ==
    (pc = "ready" /\ lastAction.kind = "province") =>
        LET want == RecordsOfProvince(globalPolicies, lastAction.arg)
        IN /\ shown = want
           /\ container = DashboardBody
           /\ IF want = << >>
              THEN tbody = <<PlaceholderRow>>
              ELSE /\ Len(tbody) = Len(want)
                   /\ \A i \in DOMAIN want :
                         /\ tbody[i].kind = "policy"
                         /\ tbody[i].onclick = want[i].id.s
                         /\ tbody[i].province = lastAction.arg

\* a province with more records than the default view shows
C2_Witness ==
    /\ pc = "ready"
    /\ lastAction.kind = "province"
    /\ Len(shown) > 50
    /\ Len(tbody) = Len(shown)
    /\ Len(shown) < Len(globalPolicies)

\* C3: after filterTableByInstrument(C) the table shows exactly the records
\* whose instruments have C as an element, in collection order; when there
\* is none it shows the placeholder row, and no error is shown.
C3_InstrumentFilterExact ==
    (pc = "ready" /\ lastAction.kind = "instrument") =>
        LET want == RecordsUsing(globalPolicies, lastAction.arg)
        IN /\ shown = want
           /\ container = DashboardBody
           /\ IF want = << >>
              THEN tbody = <<PlaceholderRow>>
              ELSE /\ Len(tbody) = Len(want)
                   /\ \A i \in DOMAIN want : tbody[i].onclick = want[i].id.s

\* the code "tax" selected where a record has "tax_ex" and not "tax": the
\* record is left out, others are shown
C3_Witness ==
    /\ pc = "ready"
    /\ lastAction.kind = "instrument"
    /\ lastAction.arg = Tax
    /\ shown # << >>
    /\ \E i \in DOMAIN globalPolicies :
          /\ globalPolicies[i].instruments = <<TaxEx>>
          /\ \A j \in DOMAIN shown : shown[j] # globalPolicies[i]

\* C4: right after the load and after the chart's reset, the table shows the
\* first 50 records of the collection in order, all of them when there are
\* fewer.
C4_UnfilteredShowsFirst50 ==
    (pc = "ready" /\ lastAction.kind \in {"load", "clear"}) =>
        /\ Len(shown) = Min(Len(globalPolicies), 50)
        /\ \A i \in DOMAIN shown : shown[i] = globalPolicies[i]
        /\ Len(tbody) = IF shown = << >> THEN 1 ELSE Len(shown)
        /\ \A i \in DOMAIN shown : tbody[i].onclick = globalPolicies[i].id.s

\* the reset after a province selection, on a collection of more than 50
C4_Witness ==
    /\ pc = "ready"
    /\ lastAction.kind = "clear"
    /\ prevAction.kind = "province"
    /\ Len(globalPolicies) > 50
    /\ Len(shown) = 50

\* C5: once the dashboard is loaded the table body is never empty, and when
\* no record is visible it is the one placeholder row.
C5_TableBodyNeverEmpty ==
    pc = "ready" =>
        /\ tbody # << >>
        /\ shown = << >> => (Len(tbody) = 1 /\ tbody[1].kind = "placeholder")
        /\ shown # << >> => \A i \in DOMAIN tbody : tbody[i].kind = "policy"

\* an instrument of the chart that no record of a non-empty collection uses
C5_Witness ==
    /\ pc = "ready"
    /\ lastAction.kind = "instrument"
    /\ globalPolicies # << >>
    /\ shown = << >>
    /\ tbody = <<PlaceholderRow>>

\* a fetch was rejected or its body is not JSON
LoadFailure ==
    \/ dataFetch = "rejected"
    \/ geoFetch = "rejected"
    \/ dataRes.kind = "nonjson"
    \/ geoRes.kind = "nonjson"

\* C6: when a startup fetch is rejected or yields a body that is not JSON,
\* no rendering step is ever called, the dashboard never becomes ready, and
\* once initDashboard has ended the page shows the error message in place of
\* the dashboard body.
C6_LoadFailureAborts ==
    LoadFailure =>
        /\ calls = << >>
        /\ tbody = << >>
        /\ instChart = EmptyChart
        /\ ~registeredMap.set
        /\ pc # "ready"
        /\ pc = "failed" => (container.kind = "error" /\ container.message # "")
        /\ pc # "failed" => container = DashboardBody

\* the dataset parsed, the geometry's body not JSON: the error page
C6_Witness ==
    /\ pc = "failed"
    /\ data.set
    /\ geoRes.kind = "nonjson"
    /\ container.kind = "error"

\* C7: both fetches are started in one step, and no rendering step is called
\* before both have been fulfilled and both bodies parsed, in whichever
\* order they settle.
C7_RenderAfterJoin ==
    /\ (dataFetch = "none") <=> (geoFetch = "none")
    /\ calls # << >> =>
          /\ dataFetch = "fulfilled"
          /\ geoFetch = "fulfilled"
          /\ dataRes.kind = "json"
          /\ geoRes.kind = "json"
          /\ data.set
          /\ chinaGeo.set
          /\ calls = <<"renderKPIs", "initMap", "initCharts", "renderTable">>

\* the dashboard rendered
C7_Witness ==
    /\ pc = "ready"
    /\ Len(calls) = 4
    /\ tbody # << >>

\* C8: globalPolicies is empty until initCharts sets it, and from then on it
\* is the policies array of the parsed dataset, record for record.
C8_CollectionNeverMutated ==
    /\ pc = "ready" => globalPolicies = data.doc.policies
    /\ pc # "ready" => globalPolicies = << >>

\* the reset after an instrument selection with the modal open, on a
\* collection of more than 50
C8_Witness ==
    /\ pc = "ready"
    /\ lastAction.kind = "clear"
    /\ prevAction.kind = "instrument"
    /\ ~overlayHidden
    /\ Len(globalPolicies) > 50

\* a feature's adcode is 710000, as a number or as the numeral
HasReservedCode(f) ==
    \/ (f.properties.adcode.t = "number" /\ f.properties.adcode.n = 710000)
    \/ (f.properties.adcode.t = "string"
            /\ f.properties.adcode.s = <<"7", "1", "0", "0", "0", "0">>)

\* a feature's name has "台湾" or "Taiwan" in it
HasMarker(f) ==
    /\ f.properties.name.t = "string"
    /\ LET name == f.properties.name.s
       IN \E i \in 1..Len(name), j \in 1..Len(name) :
             \/ SubSeq(name, i, j) = <<"U+53F0", "U+6E7E">>
             \/ SubSeq(name, i, j) = <<"T", "a", "i", "w", "a", "n">>

\* a feature has no name or the empty name
HasEmptyName(f) ==
    \/ f.properties.name.t # "string"
    \/ Len(f.properties.name.s) = 0

Excluded(f) == HasReservedCode(f) \/ HasMarker(f) \/ HasEmptyName(f)

\* C9: the features filter, applied once to a features array, gives the
\* features that have neither the adcode 710000 nor a marker in the name nor
\* an empty name: none of those is in the output, every other feature is,
\* and the order is the input's.
C9_SanitizerExact ==
    (pc = "sanitizer" /\ passes = 1 /\ rawGeo.hasFeatures) =>
        /\ \A i \in DOMAIN chinaGeo.doc.features : ~Excluded(chinaGeo.doc.features[i])
        /\ chinaGeo.doc.features = SelectSeq(rawGeo.features, LAMBDA f : ~Excluded(f))

\* a string adcode "710000", a lower-case "taiwan" and an empty name: the
\* second alone is kept
C9_Witness ==
    /\ pc = "sanitizer"
    /\ passes = 1
    /\ Len(rawGeo.features) = 3
    /\ rawGeo.features[1].properties.adcode = JStr(ReservedDigits)
    /\ rawGeo.features[2].properties.name = JStr(TaiwanLower)
    /\ rawGeo.features[3].properties.name = JStr(<< >>)
    /\ chinaGeo.doc.features = <<rawGeo.features[2]>>

\* C10: applying the features filter to a document it has already filtered
\* leaves the document as it is.
C10_SanitizerIdempotent ==
    [][(pc = "sanitizer" /\ passes >= 1) => chinaGeo' = chinaGeo]_vars

\* a document filtered twice, two of whose three features were removed
C10_Witness ==
    /\ pc = "sanitizer"
    /\ passes = 2
    /\ Len(rawGeo.features) = 3
    /\ Len(chinaGeo.doc.features) = 1
    /\ ~FeatureKept(rawGeo.features[1])
    /\ ~FeatureKept(rawGeo.features[2])

\* C11: the features filter changes nothing of the geometry object it was
\* given: the object's features array is the same after the filter as it
\* was when the document was parsed.
C11_InputUnchanged ==
    (pc = "sanitizer" /\ passes >= 1) => chinaGeo.doc.features = rawGeo.features

\* the place of entry i in the ranking of entries: behind the entries of a
\* larger count and the earlier entries of its own count
RankOf(entries, i) ==
    1 + Cardinality({j \in DOMAIN entries :
                        \/ entries[j][2] > entries[i][2]
                        \/ (entries[j][2] = entries[i][2] /\ j < i)})

\* C12: the chart's series is the mapping's entries by count, largest first,
\* entries of one count in the mapping's iteration order, cut to the first
\* 8; ranking the same mapping again gives the same series.
C12_RankingStableTop8 ==
    (pc = "rank" /\ passes >= 1) =>
        LET entries == data.doc.global_instruments
        IN /\ Len(instChart.rawKeys) = Min(Len(entries), 8)
           /\ Len(instChart.counts) = Min(Len(entries), 8)
           /\ \A i \in DOMAIN entries :
                 RankOf(entries, i) <= 8 =>
                    /\ instChart.rawKeys[RankOf(entries, i)] = entries[i][1]
                    /\ instChart.counts[RankOf(entries, i)] = entries[i][2]

\* nine entries ranked twice: the last has the largest count and comes
\* first, two entries tie, and an entry of the smallest count is cut
C12_Witness ==
    /\ pc = "rank"
    /\ passes = 2
    /\ Len(data.doc.global_instruments) = 9
    /\ Len(instChart.rawKeys) = 8
    /\ instChart.rawKeys[1] = data.doc.global_instruments[9][1]
    /\ instChart.counts[1] = 3
    /\ instChart.counts[2] = 2
    /\ instChart.counts[3] = 2
    /\ instChart.counts[8] = 1
    /\ data.doc.global_instruments[1][2] = 1

\* the entry at place i of the ranking of entries
RankedEntry(entries, i) == entries[CHOOSE j \in DOMAIN entries : RankOf(entries, j) = i]

\* s without the first occurrence of pat, if it has one
WithoutFirst(s, pat) ==
    LET at == {k \in 1..(Len(s) - Len(pat) + 1) : SubSeq(s, k, k + Len(pat) - 1) = pat}
    IN IF at = {} THEN s
       ELSE LET k == CHOOSE k \in at : \A m \in at : k <= m
            IN SubSeq(s, 1, k - 1) \o SubSeq(s, k + Len(pat), Len(s))

\* the display label of an instrument code: underscores to spaces, then
\* "fiscal " and "tax " taken out
DisplayLabel(code) ==
    WithoutFirst(WithoutFirst([k \in DOMAIN code |-> IF code[k] = "_" THEN " " ELSE code[k]],
                              <<"f", "i", "s", "c", "a", "l", " ">>),
                 <<"t", "a", "x", " ">>)

\* the label, the code and the count of every bar are those of the entry
\* at the bar's place in the ranking
BarsFollowRanking ==
    LET entries == data.doc.global_instruments
    IN /\ Len(instChart.rawKeys) = Min(Len(entries), 8)
       /\ Len(instChart.labels) = Len(instChart.rawKeys)
       /\ Len(instChart.counts) = Len(instChart.rawKeys)
       /\ \A i \in DOMAIN instChart.rawKeys :
             /\ instChart.rawKeys[i] = RankedEntry(entries, i)[1]
             /\ instChart.counts[i] = RankedEntry(entries, i)[2]
             /\ instChart.labels[i] = DisplayLabel(RankedEntry(entries, i)[1])

\* C13: on the loaded dashboard the label, the code and the count at every
\* bar index are those of one ranked entry, and a click on bar i filters the
\* table by the code of that entry as the mapping has it, never by the
\* label: the rows are the records whose instruments have that code.
C13_BarClickUsesRawKey ==
    pc = "ready" =>
        /\ BarsFollowRanking
        /\ lastAction.kind = "instrument" =>
              LET code == RankedEntry(data.doc.global_instruments, lastAction.bar)[1]
                  want == RecordsUsing(globalPolicies, code)
              IN /\ lastAction.arg = code
                 /\ shown = want
                 /\ IF want = << >>
                    THEN tbody = <<PlaceholderRow>>
                    ELSE /\ Len(tbody) = Len(want)
                         /\ \A k \in DOMAIN want : tbody[k].onclick = want[k].id.s

\* the second bar clicked: its label is "sub", its code "fiscal_sub", and
\* the rows are records that use "fiscal_sub"
C13_Witness ==
    /\ pc = "ready"
    /\ Len(instChart.rawKeys) >= 2
    /\ instChart.rawKeys[2] = FiscalSub
    /\ instChart.labels[2] = <<"s", "u", "b">>
    /\ lastAction.kind = "instrument"
    /\ lastAction.bar = 2
    /\ shown # << >>
    /\ Len(shown) < Len(globalPolicies)
    /\ \A k \in DOMAIN shown : \E j \in DOMAIN shown[k].instruments :
          shown[k].instruments[j] = FiscalSub

\* C14: a click on a row of the table, whatever was selected before, shows
\* the overlay with the title and the three detail blocks of the record the
\* row was rendered from.
C14_RowOpensItsRecord ==
    [][\A i \in DOMAIN tbody :
          RowClick(i) =>
             /\ ~overlayHidden'
             /\ modalTitle' = shown[i].title
             /\ modalBlocks' = ModalBlocks(shown[i])
             /\ tbody[i].titleAttr = shown[i].title
      ]_vars

\* a province selected that the first record is not of: the one row is the
\* second record, and the modal shows the second record
C14_Witness ==
    /\ pc = "ready"
    /\ lastAction.kind = "province"
    /\ Len(globalPolicies) = 2
    /\ shown = <<globalPolicies[2]>>
    /\ ~overlayHidden
    /\ modalTitle = globalPolicies[2].title
    /\ modalBlocks = ModalBlocks(globalPolicies[2])
    /\ modalBlocks # ModalBlocks(globalPolicies[1])

\* C15: openModal called with an id that no record of the collection has
\* changes nothing: the modal's title and its three blocks stay what they
\* were, the overlay stays shown or hidden as it was, and the page shows no
\* error.
C15_UnknownIdIsNoOp ==
    [][((\A j \in DOMAIN globalPolicies : globalPolicies[j].id # JStr(StrayId))
            /\ openModal(StrayId)) =>
          /\ modalTitle' = modalTitle
          /\ modalBlocks' = modalBlocks
          /\ overlayHidden' = overlayHidden
          /\ container' = container
          /\ UNCHANGED vars
      ]_vars

\* the modal open on the second record of a collection none of whose ids is
\* the stray one: the call leaves this state as it is, the overlay shown
C15_Witness ==
    /\ pc = "ready"
    /\ Len(globalPolicies) = 2
    /\ \A j \in DOMAIN globalPolicies : globalPolicies[j].id # JStr(StrayId)
    /\ ~overlayHidden
    /\ modalTitle = globalPolicies[2].title
    /\ modalBlocks = ModalBlocks(globalPolicies[2])
    /\ container = DashboardBody

\* C16: a visible overlay is hidden by closeModal alone, called as such or
\* by a click whose target is the overlay itself; a click inside the modal
\* or elsewhere on the page, a click on the map or on the chart, a click on
\* a row and an openModal call leave it visible.
C16_OverlayHiddenOnlyByClose ==
    [][/\ (~overlayHidden /\ overlayHidden') => closeModal
       /\ (~overlayHidden
             /\ \/ WindowOnClick("modal-body")
                \/ WindowOnClick("elsewhere")
                \/ \E name \in ClickNames : MapClick(name)
                \/ \E elements \in {<< >>} \cup {<<i>> : i \in 1..Len(instChart.rawKeys)} :
                      instChartOnClick(elements)
                \/ \E i \in 1..Len(tbody) : RowClick(i)
                \/ openModal(StrayId))
          => ~overlayHidden'
      ]_vars

\* the modal opened on a record and then an instrument selected that the
\* record does not use: the overlay is still visible over the new rows
C16_Witness ==
    /\ pc = "ready"
    /\ ~overlayHidden
    /\ lastAction.kind = "instrument"
    /\ shown # << >>
    /\ \E k \in DOMAIN globalPolicies :
          /\ modalTitle = globalPolicies[k].title
          /\ \A j \in DOMAIN shown : shown[j] # globalPolicies[k]

\* mapping m has the key k
HasKey(m, k) == \E i \in DOMAIN m.entries : m.entries[i][1] = k

\* what mapping m has for its key k
ValueAt(m, k) == m.entries[CHOOSE i \in DOMAIN m.entries : m.entries[i][1] = k][2]

\* the keys of subsidies, taxes and rd, in that order
FinanceKeys(p) ==
    [i \in DOMAIN p.subsidies.entries |-> p.subsidies.entries[i][1]]
        \o [i \in DOMAIN p.taxes.entries |-> p.taxes.entries[i][1]]
        \o [i \in DOMAIN p.rd.entries |-> p.rd.entries[i][1]]

\* where key k comes first in the keys of the three
FirstAt(p, k) ==
    CHOOSE i \in DOMAIN FinanceKeys(p) :
        /\ FinanceKeys(p)[i] = k
        /\ \A j \in 1..(i - 1) : FinanceKeys(p)[j] # k

\* the entry of key k in the union: rd's over taxes' over subsidies'
Winner(p, k) ==
    IF HasKey(p.rd, k) THEN ValueAt(p.rd, k)
    ELSE IF HasKey(p.taxes, k) THEN ValueAt(p.taxes, k)
    ELSE ValueAt(p.subsidies, k)

HasText(v) == v.t = "string" /\ v.s # << >>

\* the entry has a value or evidence text
Qualifies(v) == ~v.isNull /\ (HasText(v.value) \/ HasText(v.evidence))

\* C17: the financial block of an opened record is built from the union of
\* its subsidies, taxes and rd, rd's entry for a key overriding taxes' and
\* taxes' overriding subsidies': it has one item for each key of the union
\* whose entry has a value or evidence, in the order the keys first come,
\* the item showing the value, or 'Yes' when the entry has evidence and no
\* value, and the evidence when there is some; when no entry has either,
\* the block is the one paragraph of the empty state.
C17_FinanceBlockFromUnion ==
    (pc = "modal" /\ ~overlayHidden) =>
        LET p == globalPolicies[1]
            block == modalBlocks.subsidies
            keys == {FinanceKeys(p)[i] : i \in DOMAIN FinanceKeys(p)}
            qualifying == {k \in keys : Qualifies(Winner(p, k))}
            NameOf(k) == [i \in DOMAIN k |-> IF k[i] = "_" THEN " " ELSE k[i]]
        IN IF qualifying = {}
           THEN block = <<Paragraph(NoFinanceText)>>
           ELSE /\ Len(block) = Cardinality(qualifying)
                /\ \A k \in qualifying :
                      \E i \in DOMAIN block :
                         /\ block[i].kind = "item"
                         /\ block[i].name = NameOf(k)
                         /\ block[i].value =
                               IF HasText(Winner(p, k).value) THEN Winner(p, k).value.s
                               ELSE <<"Y", "e", "s">>
                         /\ block[i].hasQuote = HasText(Winner(p, k).evidence)
                         /\ block[i].hasQuote => block[i].quote = Winner(p, k).evidence.s
                         /\ \A k2 \in qualifying, j \in DOMAIN block :
                               (block[j].name = NameOf(k2) /\ FirstAt(p, k) < FirstAt(p, k2))
                                  => i < j

\* subsidies has a value for a key, taxes an entry without value or evidence
\* and rd evidence alone: the item is rd's, showing 'Yes' and the evidence;
\* the other key's entry is taxes' value
C17_Witness ==
    /\ pc = "modal"
    /\ ~overlayHidden
    /\ HasKey(globalPolicies[1].subsidies, BuySub)
    /\ HasText(ValueAt(globalPolicies[1].subsidies, BuySub).value)
    /\ HasKey(globalPolicies[1].taxes, BuySub)
    /\ ~Qualifies(ValueAt(globalPolicies[1].taxes, BuySub))
    /\ HasKey(globalPolicies[1].rd, BuySub)
    /\ ~HasText(ValueAt(globalPolicies[1].rd, BuySub).value)
    /\ Len(modalBlocks.subsidies) = 2
    /\ modalBlocks.subsidies[1].value = <<"Y", "e", "s">>
    /\ modalBlocks.subsidies[1].quote = <<"r", "e">>
    /\ modalBlocks.subsidies[2].value = <<"t">>

\* C18: the title cell of a row is the record's title when the title has at
\* most 35 characters, and otherwise its first 35 characters followed by
\* '...': the cell never has more than 38 characters, and the cell of a
\* title that was cut ends with the three dots.
C18_TitleCellTruncation ==
    (pc = "title" /\ tbody # << >>) =>
        LET title == globalPolicies[1].title
            cell == tbody[1].title
        IN /\ Len(title) <= 35 => cell = title
           /\ Len(title) > 35 =>
                 /\ Len(cell) = 38
                 /\ \A i \in 1..35 : cell[i] = title[i]
                 /\ SubSeq(cell, 36, 38) = <<".", ".", ".">>
           /\ Len(cell) <= 38

\* a title of 36 characters, the last the one "b": the cell has 38, the
\* "b" is not in it
C18_Witness ==
    /\ pc = "title"
    /\ tbody # << >>
    /\ Len(globalPolicies[1].title) = 36
    /\ globalPolicies[1].title[36] = "b"
    /\ Len(tbody[1].title) = 38
    /\ \A i \in 1..38 : tbody[1].title[i] # "b"

\* s begins with pre
StartsWith(s, pre) == Len(s) >= Len(pre) /\ SubSeq(s, 1, Len(pre)) = pre

\* C19: on the loaded dashboard the table's heading agrees with the
\* selection: it reads 'Policies in: P' only while the rows are the records
\* of province P, 'Policies using: C' only while the rows are the records
\* that use instrument C, and after the chart's reset it names no province
\* and no instrument.
C19_HeadingAgreesWithSelection ==
    pc = "ready" =>
        /\ StartsWith(tableTitle, HeadingIn) =>
              /\ lastAction.kind = "province"
              /\ tableTitle = HeadingIn \o lastAction.arg
              /\ shown = RecordsOfProvince(globalPolicies, lastAction.arg)
        /\ StartsWith(tableTitle, HeadingUsing) =>
              /\ lastAction.kind = "instrument"
              /\ tableTitle = HeadingUsing
                                  \o [i \in DOMAIN lastAction.arg |->
                                         IF lastAction.arg[i] = "_" THEN " "
                                         ELSE lastAction.arg[i]]
              /\ shown = RecordsUsing(globalPolicies, lastAction.arg)
        /\ lastAction.kind = "clear" =>
              /\ ~StartsWith(tableTitle, HeadingIn)
              /\ ~StartsWith(tableTitle, HeadingUsing)

\* row is the row of record p: it opens p's id and carries p's title and
\* province
RowIsOf(row, p) ==
    /\ row.kind = "policy"
    /\ row.onclick = p.id.s
    /\ row.titleAttr = p.title
    /\ row.province = p.province

\* the rows of records in the table
RecordRows == IF tbody # << >> /\ tbody[1].kind = "placeholder" THEN << >> ELSE tbody

RECURSIVE RowsEmbed(_, _)
\* the rows from the k-th on are, in turn, the rows of records at increasing
\* places of the collection from place from on, each row taking the first
\* place that fits, and the array rendered has the record of that place
RowsEmbed(k, from) ==
    IF k > Len(RecordRows) THEN TRUE
    ELSE LET fits == {j \in from..Len(globalPolicies) :
                         RowIsOf(RecordRows[k], globalPolicies[j])}
         IN /\ fits # {}
            /\ LET first == CHOOSE j \in fits : \A m \in fits : j <= m
               IN /\ shown[k] = globalPolicies[first]
                  /\ RowsEmbed(k + 1, first + 1)

\* C20: the rows of the table are a subsequence of the collection: every
\* row is the row of a record of globalPolicies, no record has more rows
\* than it has occurrences, and the rows come in the records' order.
C20_RowsAreSubsequence ==
    pc = "ready" =>
        /\ Len(RecordRows) = Len(shown)
        /\ RowsEmbed(1, 1)

\* a province selected that all records but the seventh of a long
\* collection are of: the rows pass over the seventh and keep the order
C20_Witness ==
    /\ pc = "ready"
    /\ lastAction.kind = "province"
    /\ Len(globalPolicies) > 50
    /\ Len(tbody) = Len(globalPolicies) - 1
    /\ RowIsOf(tbody[6], globalPolicies[6])
    /\ RowIsOf(tbody[7], globalPolicies[8])
    /\ \A k \in DOMAIN tbody : ~RowIsOf(tbody[k], globalPolicies[7])

=============================================================================
